---- MODULE Spec2Model ----
(***************************************************************************)
(* Model of the ESPN data-access services of sportsdataverse-js:           *)
(*   src/app/services/nhl.service.js  (namespace nhl)                      *)
(*   src/unnamed/part_000             (namespace nba)                      *)
(*                                                                         *)
(* Every operation is an async function: it builds a URL and a parameter   *)
(* mapping, awaits one axios.get, and projects the response.  One call is  *)
(* modelled at a time (the functions share no state): the part before the  *)
(* await is one action per operation, the continuation after the await is  *)
(* AxiosResolve, a failed GET is AxiosReject.                              *)
(*                                                                         *)
(* JavaScript values are tagged records.  A string is a sequence of        *)
(* tokens: every digit, blank and sign is a token of its own; a literal    *)
(* the code never looks into ("league", a URL prefix) is one token.        *)
(***************************************************************************)
EXTENDS Integers, Sequences, FiniteSets

\* ------------------------------------------------------------------ bounds
\* Game and team ids are drawn from 1..MaxId.
MaxId == 2

\* A response body lacks at most MaxMissing of the paths of the full document
\* (besides the empty body, which lacks them all).
MaxMissing == 1

\* ------------------------------------------------------------- JS values
Undefined == [t |-> "undefined"]

Null == [t |-> "null"]

NaN == [t |-> "NaN"]

Num(n) == [t |-> "number", n |-> n]

Str(s) == [t |-> "string", s |-> s]

Word(w) == Str(<<w>>)

Bool(b) == [t |-> "boolean", b |-> b]

Obj(o) == [t |-> "object", o |-> o]

\* The abrupt completion of an expression with a TypeError.
Throw == [t |-> "throw"]

\* What the caller holds while no value has been returned.
None == [t |-> "none"]

EmptyObject == [k \in {} |-> Undefined]

Range(s) == {s[i] : i \in 1..Len(s)}

Digits == <<"0", "1", "2", "3", "4", "5", "6", "7", "8", "9">>

IsDigit(c) == c \in Range(Digits)

DigitVal(c) == (CHOOSE i \in 1..10 : Digits[i] = c) - 1

RECURSIVE NatToString(_)
\* Number::toString of a non-negative integer: its decimal digits.
NatToString(n) ==
    IF n < 10 THEN <<Digits[n + 1]>>
    ELSE NatToString(n \div 10) \o <<Digits[(n % 10) + 1]>>

\* ToString, as applied by template literals, string concatenation and
\* parseInt's first step.
ToString(v) ==
    CASE v.t = "string" -> v.s
      [] v.t = "number" -> IF v.n < 0 THEN <<"-">> \o NatToString(0 - v.n)
                           ELSE NatToString(v.n)
      [] v.t = "NaN" -> <<"NaN">>
      [] v.t = "undefined" -> <<"undefined">>
      [] v.t = "null" -> <<"null">>
      [] v.t = "boolean" -> IF v.b THEN <<"true">> ELSE <<"false">>
      [] OTHER -> <<"[object Object]">>

RECURSIVE SkipBlanks(_)
SkipBlanks(s) ==
    IF s # <<>> /\ Head(s) = " " THEN SkipBlanks(Tail(s)) ELSE s

RECURSIVE DigitPrefix(_)
DigitPrefix(s) ==
    IF s # <<>> /\ IsDigit(Head(s)) THEN <<Head(s)>> \o DigitPrefix(Tail(s))
    ELSE <<>>

RECURSIVE DigitsValue(_, _)
DigitsValue(s, acc) ==
    IF s = <<>> THEN acc ELSE DigitsValue(Tail(s), acc * 10 + DigitVal(Head(s)))

\* parseInt(v) without radix, on the decimal alphabet: ToString, leading
\* blanks skipped, an optional sign, then the longest prefix of digits; NaN
\* when that prefix is empty.
parseInt(v) ==
    LET s == SkipBlanks(ToString(v))
        neg == s # <<>> /\ Head(s) = "-"
        body == IF s # <<>> /\ Head(s) \in {"-", "+"} THEN Tail(s) ELSE s
        ds == DigitPrefix(body)
    IN  IF ds = <<>> THEN NaN
        ELSE Num(IF neg THEN 0 - DigitsValue(ds, 0) ELSE DigitsValue(ds, 0))

\* ToBoolean, as applied by && and the conditional operator.
Truthy(v) ==
    CASE v.t \in {"undefined", "null", "NaN"} -> FALSE
      [] v.t = "number" -> v.n # 0
      [] v.t = "string" -> v.s # <<>>
      [] v.t = "boolean" -> v.b
      [] OTHER -> TRUE

\* o[k]: the property when o is an object that has it, undefined otherwise
\* (also on a primitive).  The caller rules out undefined and null bases.
Get(v, k) ==
    IF v.t = "object" /\ k \in DOMAIN v.o THEN v.o[k] ELSE Undefined

RECURSIVE Walk(_, _)
\* v.p1.p2...pn: a TypeError as soon as a property is read off undefined or
\* null.  Array indices are the keys "0", "1", ...
Walk(v, path) ==
    IF path = <<>> THEN v
    ELSE IF v.t \in {"undefined", "null", "throw"} THEN Throw
    ELSE Walk(Get(v, Head(path)), Tail(path))

\* a === b on primitives: same type and same value.
StrictEq(a, b) == a.t = b.t /\ a = b

\* A destructured parameter with a default: the default replaces undefined
\* only (null is kept).
Default(arg, k, dflt) ==
    IF Get(arg, k).t = "undefined" THEN dflt ELSE Get(arg, k)

\* Destructuring a parameter pattern throws on undefined and null.
CanDestructure(arg) == arg.t \notin {"undefined", "null"}

\* ------------------------------------------------------ parameter building
\* A request as handed to axios.get: the URL, token by token, and the params
\* mapping (empty when the call passes none).
Request(url, params) == [t |-> "request", url |-> url, params |-> params]

\* n <= 9 on a parseInt result: every comparison with NaN is false.
LessEq9(n) == n.t = "number" /\ n.n <= 9

\* DatePart with the comparison written < 9: 9 is no longer padded.
DatePart_below9(x) ==
    IF parseInt(x).t = "number" /\ parseInt(x).n < 9
    THEN <<"0">> \o ToString(parseInt(x))
    ELSE ToString(parseInt(x))

\* ${parseInt(x) <= 9 ? "0" + parseInt(x) : parseInt(x)}
DatePart(x) ==
    IF LessEq9(parseInt(x)) THEN <<"0">> \o ToString(parseInt(x))
    ELSE ToString(parseInt(x))

\* ${year}${month part}${day part}
DateString(year, month, day) ==
    ToString(year) \o DatePart(month) \o DatePart(day)

CdnParams ==
    [xhr |-> Num(1), render |-> Bool(FALSE), device |-> Word("desktop"),
     userab |-> Num(18)]

nhl_getPlayByPlay_request(id) ==
    Request(<<"http://site.api.espn.com/apis/site/v2/sports/hockey/nhl/summary">>,
            [event |-> id])

nhl_getBoxScore_request(id) ==
    Request(<<"http://site.api.espn.com/apis/site/v2/sports/hockey/nhl/summary">>,
            [event |-> id])

nhl_getSummary_request(id) ==
    Request(<<"http://site.api.espn.com/apis/site/v2/sports/hockey/nhl/summary">>,
            [event |-> id])

nhl_getPicks_request(id) ==
    Request(<<"http://site.api.espn.com/apis/site/v2/sports/hockey/nhl/summary">>,
            [event |-> id])

nhl_getSchedule_request(arg) ==
    IF ~CanDestructure(arg) THEN Throw
    ELSE LET year == Default(arg, "year", Null)
             month == Default(arg, "month", Null)
             day == Default(arg, "day", Null)
         IN  Request(<<"http://cdn.espn.com/core/nhl/schedule", "?", "dates", "=">>
                        \o DateString(year, month, day),
                     CdnParams)

nhl_getScoreboard_request(arg) ==
    IF ~CanDestructure(arg) THEN Throw
    ELSE LET year == Get(arg, "year")
             month == Get(arg, "month")
             day == Get(arg, "day")
             limit == Default(arg, "limit", Num(300))
             url == <<"http://site.api.espn.com/apis/site/v2/sports/hockey/nhl/scoreboard">>
         IN  IF Truthy(year) /\ Truthy(month) /\ Truthy(day)
             THEN Request(url, [limit |-> limit,
                                dates |-> Str(DateString(year, month, day))])
             ELSE Request(url, [limit |-> limit])

\* nhl_groupId with the last two branches exchanged.
nhl_groupId_swapped(group) ==
    IF StrictEq(group, Word("league")) THEN 1
    ELSE IF StrictEq(group, Word("conference")) THEN 3
    ELSE 2

\* group === 'league' ? 1 : group === 'conference' ? 2 : 3
nhl_groupId(group) ==
    IF StrictEq(group, Word("league")) THEN 1
    ELSE IF StrictEq(group, Word("conference")) THEN 2
    ELSE 3

nhl_getStandings_request(arg, clock) ==
    IF ~CanDestructure(arg) THEN Throw
    ELSE LET year == Default(arg, "year", Num(clock))
             group == Default(arg, "group", Word("league"))
         IN  Request(<<"https://site.web.api.espn.com/apis/v2/sports/hockey/nhl/standings">>,
                     [region |-> Word("us"), lang |-> Word("en"),
                      contentorigin |-> Word("espn"), type |-> Num(1),
                      level |-> Num(nhl_groupId(group)),
                      sort |-> Word("playoffseed:asc,points:desc,gamesplayed:asc,rotwins:desc"),
                      season |-> year])

nhl_getTeamList_request ==
    Request(<<"http://site.api.espn.com/apis/site/v2/sports/hockey/nhl/teams">>,
            [limit |-> Num(1000)])

nhl_getTeamInfo_request(id) ==
    Request(<<"http://site.api.espn.com/apis/site/v2/sports/hockey/nhl/teams/">>
                \o ToString(id),
            EmptyObject)

nhl_getTeamPlayers_request(id) ==
    Request(<<"http://site.api.espn.com/apis/site/v2/sports/hockey/nhl/teams/">>
                \o ToString(id),
            [enable |-> Word("roster")])

nba_getPlayByPlay_request(id) ==
    Request(<<"http://cdn.espn.com/core/nba/playbyplay">>,
            [gameId |-> id, xhr |-> Num(1), render |-> Word("false"),
             userab |-> Num(18)])

nba_getBoxScore_request(id) ==
    Request(<<"http://cdn.espn.com/core/nba/boxscore">>,
            [gameId |-> id, xhr |-> Num(1), render |-> Bool(FALSE),
             device |-> Word("desktop"), userab |-> Num(18)])

nba_getSummary_request(id) ==
    Request(<<"http://site.api.espn.com/apis/site/v2/sports/basketball/nba/summary">>,
            [event |-> id])

nba_getPicks_request(id) ==
    Request(<<"http://site.api.espn.com/apis/site/v2/sports/basketball/nba/summary">>,
            [event |-> id])

nba_getSchedule_request(arg) ==
    IF ~CanDestructure(arg) THEN Throw
    ELSE LET year == Default(arg, "year", Null)
             month == Default(arg, "month", Null)
             day == Default(arg, "day", Null)
         IN  Request(<<"http://cdn.espn.com/core/nba/schedule", "?", "dates", "=">>
                        \o DateString(year, month, day),
                     CdnParams)

nba_getScoreboard_request(arg) ==
    IF ~CanDestructure(arg) THEN Throw
    ELSE LET year == Default(arg, "year", Null)
             month == Default(arg, "month", Null)
             day == Default(arg, "day", Null)
             limit == Default(arg, "limit", Num(300))
         IN  Request(<<"http://site.api.espn.com/apis/site/v2/sports/basketball/nba/scoreboard",
                       "?", "dates", "=">> \o DateString(year, month, day),
                     [limit |-> limit])

nba_getStandings_request(arg, clock) ==
    IF ~CanDestructure(arg) THEN Throw
    ELSE LET year == Default(arg, "year", Num(clock))
             group == Default(arg, "group", Word("league"))
         IN  Request(<<"http://cdn.espn.com/core/nba/standings/_/season/">>
                        \o ToString(year) \o <<"/group/">> \o ToString(group),
                     CdnParams)

nba_getTeamList_request ==
    Request(<<"http://site.api.espn.com/apis/site/v2/sports/basketball/nba/teams">>,
            [limit |-> Num(1000)])

nba_getTeamInfo_request(id) ==
    Request(<<"http://site.api.espn.com/apis/site/v2/sports/basketball/nba/teams/">>
                \o ToString(id),
            EmptyObject)

nba_getTeamPlayers_request(id) ==
    Request(<<"http://site.api.espn.com/apis/site/v2/sports/basketball/nba/teams/">>
                \o ToString(id),
            [enable |-> Word("roster")])

\* ------------------------------------------------------ response projection
\* One entry of an object literal: the key, the property path read off the
\* axios response, and whether the value goes through parseInt.
Field(k, p) == [key |-> k, path |-> p, int |-> FALSE]

IntField(k, p) == [key |-> k, path |-> p, int |-> TRUE]

FieldValue(f, res) ==
    IF Walk(res, f.path).t = "throw" THEN Throw
    ELSE IF f.int THEN parseInt(Walk(res, f.path))
    ELSE Walk(res, f.path)

\* return { k1: e1, ..., kn: en }: a TypeError if one of the ei throws,
\* otherwise an object with every one of the keys (a value may be undefined).
ObjectLiteral(fields, res) ==
    IF \E i \in 1..Len(fields) : FieldValue(fields[i], res).t = "throw" THEN Throw
    ELSE Obj([k \in {fields[i].key : i \in 1..Len(fields)} |->
                FieldValue(fields[CHOOSE i \in 1..Len(fields) : fields[i].key = k], res)])

nhl_getPlayByPlay_fields ==
    << Field("teams", <<"data", "header", "competitions", "0", "competitors">>),
       IntField("id", <<"data", "header", "id">>),
       Field("plays", <<"data", "plays">>),
       Field("onIce", <<"data", "onIce">>),
       Field("competitions", <<"data", "header", "competitions">>),
       Field("season", <<"data", "header", "season">>),
       Field("boxScore", <<"data", "boxscore">>),
       Field("seasonSeries", <<"data", "seasonseries">>),
       Field("standings", <<"data", "standings">>) >>

\* nhl_getSummary_fields with the whole response body spread into the result.
nhl_getSummary_fields_leak ==
    << Field("data", <<"data">>),
       Field("boxScore", <<"data", "boxscore">>),
       Field("gameInfo", <<"data", "gameInfo">>),
       Field("header", <<"data", "header">>),
       Field("teams", <<"data", "header", "competitions", "0", "competitors">>),
       IntField("id", <<"data", "header", "id">>),
       Field("plays", <<"data", "plays">>),
       Field("onIce", <<"data", "onIce">>),
       Field("leaders", <<"data", "leaders">>),
       Field("competitions", <<"data", "header", "competitions">>),
       Field("season", <<"data", "header", "season">>),
       Field("seasonSeries", <<"data", "seasonseries">>),
       Field("standings", <<"data", "standings">>) >>

nhl_getSummary_fields ==
    << Field("boxScore", <<"data", "boxscore">>),
       Field("gameInfo", <<"data", "gameInfo">>),
       Field("header", <<"data", "header">>),
       Field("teams", <<"data", "header", "competitions", "0", "competitors">>),
       IntField("id", <<"data", "header", "id">>),
       Field("plays", <<"data", "plays">>),
       Field("onIce", <<"data", "onIce">>),
       Field("leaders", <<"data", "leaders">>),
       Field("competitions", <<"data", "header", "competitions">>),
       Field("season", <<"data", "header", "season">>),
       Field("seasonSeries", <<"data", "seasonseries">>),
       Field("standings", <<"data", "standings">>) >>

nhl_getPicks_fields ==
    << IntField("id", <<"data", "header", "id">>),
       Field("gameInfo", <<"data", "gameInfo">>),
       Field("leaders", <<"data", "leaders">>),
       Field("header", <<"data", "header">>),
       Field("teams", <<"data", "header", "competitions", "0", "competitors">>),
       Field("competitions", <<"data", "header", "competitions">>),
       Field("pickcenter", <<"data", "winprobability">>),
       Field("againstTheSpread", <<"data", "againstTheSpread">>),
       Field("odds", <<"data", "odds">>),
       Field("seasonSeries", <<"data", "seasonseries">>),
       Field("season", <<"data", "header", "season">>),
       Field("standings", <<"data", "standings">>) >>

nba_getPlayByPlay_fields ==
    << Field("teams", <<"data", "gamepackageJSON", "header", "competitions", "0", "competitors">>),
       Field("id", <<"data", "gamepackageJSON", "header", "id">>),
       Field("plays", <<"data", "gamepackageJSON", "plays">>),
       Field("competitions", <<"data", "gamepackageJSON", "header", "competitions">>),
       Field("season", <<"data", "gamepackageJSON", "header", "season">>),
       Field("boxScore", <<"data", "gamepackageJSON", "boxscore">>),
       Field("seasonSeries", <<"data", "gamepackageJSON", "seasonseries">>),
       Field("standings", <<"data", "gamepackageJSON", "standings">>) >>

nba_getSummary_fields ==
    << Field("boxScore", <<"data", "boxscore">>),
       Field("gameInfo", <<"data", "gameInfo">>),
       Field("header", <<"data", "header">>),
       Field("teams", <<"data", "gamepackageJSON", "header", "competitions", "0", "competitors">>),
       Field("id", <<"data", "gamepackageJSON", "header", "id">>),
       Field("plays", <<"data", "gamepackageJSON", "plays">>),
       Field("winProbability", <<"data", "winprobability">>),
       Field("leaders", <<"data", "leaders">>),
       Field("competitions", <<"data", "gamepackageJSON", "header", "competitions">>),
       Field("season", <<"data", "gamepackageJSON", "header", "season">>),
       Field("seasonSeries", <<"data", "gamepackageJSON", "seasonseries">>),
       Field("standings", <<"data", "gamepackageJSON", "standings">>) >>

nba_getPicks_fields ==
    << IntField("id", <<"data", "header", "id">>),
       Field("gameInfo", <<"data", "gameInfo">>),
       Field("leaders", <<"data", "leaders">>),
       Field("header", <<"data", "header">>),
       Field("teams", <<"data", "header", "competitions", "0", "competitors">>),
       Field("competitions", <<"data", "header", "competitions">>),
       Field("winProbability", <<"data", "winprobability">>),
       Field("pickcenter", <<"data", "winprobability">>),
       Field("againstTheSpread", <<"data", "againstTheSpread">>),
       Field("odds", <<"data", "odds">>),
       Field("seasonSeries", <<"data", "seasonseries">>),
       Field("season", <<"data", "header", "season">>),
       Field("standings", <<"data", "standings">>) >>

\* const game = <box score>; game.id = <id>; return game;
\* A TypeError if either expression throws or game is undefined or null;
\* on a primitive the assignment throws in strict code and is dropped in
\* sloppy code.
AssignId(game, idv, strict) ==
    IF game.t = "throw" \/ idv.t = "throw" \/ game.t \in {"undefined", "null"}
    THEN Throw
    ELSE IF game.t # "object" THEN (IF strict THEN Throw ELSE game)
    ELSE Obj([k \in DOMAIN game.o \cup {"id"} |->
                IF k = "id" THEN idv ELSE game.o[k]])

\* nhl.service.js is an ES module (strict code).
nhl_getBoxScore_project(res) ==
    AssignId(Walk(res, <<"data", "boxscore">>),
             IF Walk(res, <<"data", "header", "id">>).t = "throw" THEN Throw
             ELSE parseInt(Walk(res, <<"data", "header", "id">>)),
             TRUE)

\* The nba module is a CommonJS script (sloppy code).
nba_getBoxScore_project(res) ==
    AssignId(Walk(res, <<"data", "gamepackageJSON", "boxscore">>),
             Walk(res, <<"data", "gameId">>),
             FALSE)

\* The code after the await of each operation, applied to the axios response.
Project(sp, o, res) ==
    CASE sp = "nhl" /\ o = "getPlayByPlay" -> ObjectLiteral(nhl_getPlayByPlay_fields, res)
      [] sp = "nhl" /\ o = "getBoxScore" -> nhl_getBoxScore_project(res)
      [] sp = "nhl" /\ o = "getSummary" -> ObjectLiteral(nhl_getSummary_fields, res)
      [] sp = "nhl" /\ o = "getPicks" -> ObjectLiteral(nhl_getPicks_fields, res)
      [] sp = "nhl" /\ o = "getSchedule" -> Walk(res, <<"data", "content", "schedule">>)
      [] sp = "nhl" /\ o = "getStandings" -> Walk(res, <<"data">>)
      [] sp = "nba" /\ o = "getPlayByPlay" -> ObjectLiteral(nba_getPlayByPlay_fields, res)
      [] sp = "nba" /\ o = "getBoxScore" -> nba_getBoxScore_project(res)
      [] sp = "nba" /\ o = "getSummary" -> ObjectLiteral(nba_getSummary_fields, res)
      [] sp = "nba" /\ o = "getPicks" -> ObjectLiteral(nba_getPicks_fields, res)
      [] sp = "nba" /\ o = "getSchedule" -> Walk(res, <<"data", "content", "schedule">>)
      [] sp = "nba" /\ o = "getStandings" -> Walk(res, <<"content", "standings", "groups">>)
      [] OTHER -> Walk(res, <<"data">>)

\* ------------------------------------------------------------- environment
\* The arguments callers pass.
Absent == [t |-> "absent"]

\* An object argument with the properties that are not Absent.
MkArg(props) ==
    Obj([k \in {j \in DOMAIN props : props[j].t # "absent"} |-> props[k]])

Ids == {Num(i) : i \in 1..MaxId}

\* A number as callers write it: the number, its decimal string, and for one
\* digit also the zero-padded string ("04").
NumForms(n) ==
    {Num(n), Str(NatToString(n))}
        \cup (IF n < 10 THEN {Str(<<"0">> \o NatToString(n))} ELSE {})

Months == 1..12

Days == 1..31

Years == {2016, 2019}

YearForms(y) == {Num(y), Str(NatToString(y))}

YearArgs == {Absent} \cup UNION {YearForms(y) : y \in Years}

MonthArgs == {Absent} \cup UNION {NumForms(m) : m \in Months}

DayArgs == {Absent} \cup UNION {NumForms(d) : d \in Days}

ScheduleArgs ==
    {Undefined} \cup
    {MkArg([year |-> y, month |-> m, day |-> d]) :
        y \in YearArgs, m \in MonthArgs, d \in DayArgs}

LimitArgs == {Absent, Num(50)}

ScoreboardArgs ==
    {Undefined} \cup
    {MkArg([year |-> y, month |-> m, day |-> d, limit |-> l]) :
        y \in YearArgs, m \in MonthArgs, d \in DayArgs, l \in LimitArgs}

GroupArgs ==
    {Absent, Word("league"), Word("conference"), Word("division"),
     Word("wildcard"), Num(2)}

\* getStandings is called with nothing, with a bare year (as in the examples
\* of the documentation comments) or with an object.
StandingsArgs ==
    {Undefined, Num(2016)} \cup
    {MkArg([year |-> y, group |-> g]) : y \in {Absent, Num(2016)}, g \in GroupArgs}

\* What new Date().getFullYear() can return.
ClockYears == {2021, 2026}

\* The documents the provider answers with.
CompetitionsDoc(name) ==
    Obj([k \in {"0"} |-> Obj([competitors |-> Word(name)])])

GameDoc(idv) ==
    Obj([header |-> Obj([id |-> idv,
                         competitions |-> CompetitionsDoc("header.competitors"),
                         season |-> Word("header.season")]),
         plays |-> Word("plays"),
         onIce |-> Word("onIce"),
         boxscore |-> Obj([teams |-> Word("boxscore.teams"),
                           players |-> Word("boxscore.players")]),
         gameInfo |-> Word("gameInfo"),
         leaders |-> Word("leaders"),
         winprobability |-> Word("winprobability"),
         againstTheSpread |-> Word("againstTheSpread"),
         odds |-> Word("odds"),
         seasonseries |-> Word("seasonseries"),
         standings |-> Word("standings"),
         gameId |-> idv,
         gamepackageJSON |->
            Obj([header |-> Obj([id |-> idv,
                                 competitions |-> CompetitionsDoc("gamepackageJSON.header.competitors"),
                                 season |-> Word("gamepackageJSON.header.season")]),
                 plays |-> Word("gamepackageJSON.plays"),
                 boxscore |-> Obj([teams |-> Word("gamepackageJSON.boxscore.teams")]),
                 seasonseries |-> Word("gamepackageJSON.seasonseries"),
                 standings |-> Word("gamepackageJSON.standings")])])

HeaderPaths ==
    {<<"header">>, <<"header", "id">>, <<"header", "competitions">>,
     <<"header", "competitions", "0">>,
     <<"header", "competitions", "0", "competitors">>, <<"header", "season">>}

GamePaths ==
    HeaderPaths \cup {<<"gamepackageJSON">> \o p : p \in HeaderPaths}
    \cup {<<"plays">>, <<"onIce">>, <<"boxscore">>, <<"gameInfo">>, <<"leaders">>,
          <<"winprobability">>, <<"againstTheSpread">>, <<"odds">>,
          <<"seasonseries">>, <<"standings">>, <<"gameId">>, <<"gamepackageJSON">>,
          <<"gamepackageJSON", "plays">>, <<"gamepackageJSON", "boxscore">>,
          <<"gamepackageJSON", "seasonseries">>, <<"gamepackageJSON", "standings">>}

ScheduleDoc == Obj([content |-> Obj([schedule |-> Word("content.schedule")])])

SchedulePaths == {<<"content">>, <<"content", "schedule">>}

StandingsDoc ==
    Obj([content |-> Obj([standings |-> Obj([groups |-> Word("content.standings.groups")])]),
         children |-> Word("children")])

StandingsPaths ==
    {<<"content">>, <<"content", "standings">>,
     <<"content", "standings", "groups">>, <<"children">>}

PlainDoc == Obj([items |-> Word("items")])

PlainPaths == {<<"items">>}

RECURSIVE Drop(_, _)
\* The document v without what stands at the path.
Drop(v, path) ==
    IF v.t # "object" \/ Head(path) \notin DOMAIN v.o THEN v
    ELSE IF Len(path) = 1
    THEN Obj([k \in DOMAIN v.o \ {Head(path)} |-> v.o[k]])
    ELSE Obj([k \in DOMAIN v.o |->
                IF k = Head(path) THEN Drop(v.o[k], Tail(path)) ELSE v.o[k]])

RECURSIVE DropAll(_, _)
DropAll(v, paths) ==
    IF paths = {} THEN v
    ELSE LET p == CHOOSE q \in paths : TRUE
         IN  DropAll(Drop(v, p), paths \ {p})

RECURSIVE SubsetsUpTo(_, _)
\* The subsets of S of at most n elements.
SubsetsUpTo(S, n) ==
    IF n = 0 THEN {{}}
    ELSE SubsetsUpTo(S, n - 1)
            \cup {m \cup {x} : m \in SubsetsUpTo(S, n - 1), x \in S}

GameOps == {"getPlayByPlay", "getBoxScore", "getSummary", "getPicks"}

\* The provider echoes the requested id in the header, as a string or as a
\* number.
Bodies(o, a) ==
    {Obj(EmptyObject)} \cup
    IF o \in GameOps
    THEN {DropAll(GameDoc(idv), m) :
            idv \in {Str(ToString(a)), a}, m \in SubsetsUpTo(GamePaths, MaxMissing)}
    ELSE IF o = "getSchedule"
    THEN {DropAll(ScheduleDoc, m) : m \in SubsetsUpTo(SchedulePaths, MaxMissing)}
    ELSE IF o = "getStandings"
    THEN {DropAll(StandingsDoc, m) : m \in SubsetsUpTo(StandingsPaths, MaxMissing)}
    ELSE {DropAll(PlainDoc, m) : m \in SubsetsUpTo(PlainPaths, MaxMissing)}

\* The response object axios.get resolves with.
Response(body) == Obj([data |-> body, status |-> Num(200)])

\* ------------------------------------------------------------------- state
VARIABLES
    sport,      \* namespace of the operation being called ("none" when idle)
    op,         \* the operation being called
    arg,        \* its argument
    clock,      \* the year read off the system clock by this call, if any
    pc,         \* "idle", "awaiting" (at the await), "fulfilled", "rejected"
    requests,   \* the axios.get calls of this call, in order
    res,        \* the response the await resumed with
    projected,  \* whether the code after the await has run
    result,     \* the value the returned promise is fulfilled with
    error       \* the error it is rejected with

vars == <<sport, op, arg, clock, pc, requests, res, projected, result, error>>

Init ==
    /\ sport = "none"
    /\ op = "none"
    /\ arg = None
    /\ clock = None
    /\ pc = "idle"
    /\ requests = <<>>
    /\ res = None
    /\ projected = FALSE
    /\ result = None
    /\ error = "none"

\* The synchronous part of an async function: parameter destructuring and
\* defaults, URL and params, then axios.get and the suspension at the await.
\* An exception thrown before the await rejects the returned promise.
Invoke(sp, o, a, c, req) ==
    /\ pc = "idle"
    /\ sport' = sp
    /\ op' = o
    /\ arg' = a
    /\ clock' = c
    /\ res' = None
    /\ projected' = FALSE
    /\ result' = None
    /\ IF req.t = "throw"
       THEN /\ pc' = "rejected"
            /\ error' = "TypeError"
            /\ requests' = <<>>
       ELSE /\ pc' = "awaiting"
            /\ error' = "none"
            /\ requests' = <<req>>

nhl_getPlayByPlay ==
    /\ pc = "idle"
    /\ \E id \in Ids : Invoke("nhl", "getPlayByPlay", id, None, nhl_getPlayByPlay_request(id))

nhl_getBoxScore ==
    /\ pc = "idle"
    /\ \E id \in Ids : Invoke("nhl", "getBoxScore", id, None, nhl_getBoxScore_request(id))

nhl_getSummary ==
    /\ pc = "idle"
    /\ \E id \in Ids : Invoke("nhl", "getSummary", id, None, nhl_getSummary_request(id))

nhl_getPicks ==
    /\ pc = "idle"
    /\ \E id \in Ids : Invoke("nhl", "getPicks", id, None, nhl_getPicks_request(id))

nhl_getSchedule ==
    /\ pc = "idle"
    /\ \E a \in ScheduleArgs : Invoke("nhl", "getSchedule", a, None, nhl_getSchedule_request(a))

nhl_getScoreboard ==
    /\ pc = "idle"
    /\ \E a \in ScoreboardArgs :
           Invoke("nhl", "getScoreboard", a, None, nhl_getScoreboard_request(a))

\* The default of year reads the clock only when year is undefined.
ReadsClock(a) == CanDestructure(a) /\ Get(a, "year").t = "undefined"

nhl_getStandings ==
    /\ pc = "idle"
    /\ \E a \in StandingsArgs, y \in ClockYears :
           Invoke("nhl", "getStandings", a, IF ReadsClock(a) THEN Num(y) ELSE None,
                  nhl_getStandings_request(a, y))

nhl_getTeamList ==
    /\ pc = "idle"
    /\ Invoke("nhl", "getTeamList", Undefined, None, nhl_getTeamList_request)

nhl_getTeamInfo ==
    /\ pc = "idle"
    /\ \E id \in Ids : Invoke("nhl", "getTeamInfo", id, None, nhl_getTeamInfo_request(id))

nhl_getTeamPlayers ==
    /\ pc = "idle"
    /\ \E id \in Ids : Invoke("nhl", "getTeamPlayers", id, None, nhl_getTeamPlayers_request(id))

nba_getPlayByPlay ==
    /\ pc = "idle"
    /\ \E id \in Ids : Invoke("nba", "getPlayByPlay", id, None, nba_getPlayByPlay_request(id))

nba_getBoxScore ==
    /\ pc = "idle"
    /\ \E id \in Ids : Invoke("nba", "getBoxScore", id, None, nba_getBoxScore_request(id))

nba_getSummary ==
    /\ pc = "idle"
    /\ \E id \in Ids : Invoke("nba", "getSummary", id, None, nba_getSummary_request(id))

nba_getPicks ==
    /\ pc = "idle"
    /\ \E id \in Ids : Invoke("nba", "getPicks", id, None, nba_getPicks_request(id))

nba_getSchedule ==
    /\ pc = "idle"
    /\ \E a \in ScheduleArgs : Invoke("nba", "getSchedule", a, None, nba_getSchedule_request(a))

nba_getScoreboard ==
    /\ pc = "idle"
    /\ \E a \in ScoreboardArgs :
           Invoke("nba", "getScoreboard", a, None, nba_getScoreboard_request(a))

nba_getStandings ==
    /\ pc = "idle"
    /\ \E a \in StandingsArgs, y \in ClockYears :
           Invoke("nba", "getStandings", a, IF ReadsClock(a) THEN Num(y) ELSE None,
                  nba_getStandings_request(a, y))

nba_getTeamList ==
    /\ pc = "idle"
    /\ Invoke("nba", "getTeamList", Undefined, None, nba_getTeamList_request)

nba_getTeamInfo ==
    /\ pc = "idle"
    /\ \E id \in Ids : Invoke("nba", "getTeamInfo", id, None, nba_getTeamInfo_request(id))

nba_getTeamPlayers ==
    /\ pc = "idle"
    /\ \E id \in Ids : Invoke("nba", "getTeamPlayers", id, None, nba_getTeamPlayers_request(id))

\* The GET succeeds: the await resumes with the response and the rest of the
\* function runs; a TypeError in it rejects the returned promise.
AxiosResolve ==
    /\ pc = "awaiting"
    /\ \E body \in Bodies(op, arg) :
        /\ res' = Response(body)
        /\ projected' = TRUE
        /\ IF Project(sport, op, Response(body)).t = "throw"
           THEN /\ pc' = "rejected"
                /\ error' = "TypeError"
                /\ result' = None
           ELSE /\ pc' = "fulfilled"
                /\ error' = "none"
                /\ result' = Project(sport, op, Response(body))
    /\ UNCHANGED <<sport, op, arg, clock, requests>>

\* AxiosReject with the failure caught and the projection run on an empty
\* response.
AxiosReject_caught ==
    /\ pc = "awaiting"
    /\ error' = "TransportError"
    /\ projected' = TRUE
    /\ res' = Response(Obj(EmptyObject))
    /\ pc' = "fulfilled"
    /\ result' = Obj(EmptyObject)
    /\ UNCHANGED <<sport, op, arg, clock, requests>>

\* The GET fails (network failure, non-2xx status): the await throws, nothing
\* catches it, the returned promise is rejected with the transport's error.
AxiosReject ==
    /\ pc = "awaiting"
    /\ pc' = "rejected"
    /\ error' = "TransportError"
    /\ UNCHANGED <<sport, op, arg, clock, requests, res, projected, result>>

\* The caller has consumed the settled promise; nothing of the call remains.
Return ==
    /\ pc \in {"fulfilled", "rejected"}
    /\ sport' = "none"
    /\ op' = "none"
    /\ arg' = None
    /\ clock' = None
    /\ pc' = "idle"
    /\ requests' = <<>>
    /\ res' = None
    /\ projected' = FALSE
    /\ result' = None
    /\ error' = "none"

Next ==
    \/ nhl_getPlayByPlay
    \/ nhl_getBoxScore
    \/ nhl_getSummary
    \/ nhl_getPicks
    \/ nhl_getSchedule
    \/ nhl_getScoreboard
    \/ nhl_getStandings
    \/ nhl_getTeamList
    \/ nhl_getTeamInfo
    \/ nhl_getTeamPlayers
    \/ nba_getPlayByPlay
    \/ nba_getBoxScore
    \/ nba_getSummary
    \/ nba_getPicks
    \/ nba_getSchedule
    \/ nba_getScoreboard
    \/ nba_getStandings
    \/ nba_getTeamList
    \/ nba_getTeamInfo
    \/ nba_getTeamPlayers
    \/ AxiosResolve
    \/ AxiosReject
    \/ Return

Spec == Init /\ [][Next]_vars

\* ------------------------------------------------------------- properties
Settled == pc \in {"fulfilled", "rejected"}

Issued == Len(requests) = 1

IsObject(v) == v.t = "object"

Present(v) == v.t \notin {"undefined", "throw"}

\* The tokens of a URL after the first occurrence of a token.
After(url, tok) ==
    SubSeq(url, (CHOOSE i \in 1..Len(url) : url[i] = tok /\ \A j \in 1..(i - 1) : url[j] # tok) + 1,
           Len(url))

Before(url, tok) ==
    SubSeq(url, 2, (CHOOSE i \in 1..Len(url) : url[i] = tok) - 1)

\* A request carries a dates parameter in its params or in the query string
\* of its URL.
HasDates(req) == "dates" \in DOMAIN req.params \/ "dates" \in Range(req.url)

DatesOf(req) ==
    IF "dates" \in DOMAIN req.params THEN ToString(req.params["dates"])
    ELSE After(req.url, "=")

\* The play-by-play path of the header id, per sport.
HeaderId ==
    IF sport = "nhl" THEN Walk(res, <<"data", "header", "id">>)
    ELSE Walk(res, <<"data", "gamepackageJSON", "header", "id">>)

\* C1: whenever getPlayByPlay (of either sport) returns and the header of the
\* response carries an id, the id field of the result is an integer: the
\* requested id the provider echoed, never the raw string.
C1_PlayByPlayIdIsInteger ==
    (op = "getPlayByPlay" /\ pc = "fulfilled" /\ Present(HeaderId))
        => StrictEq(Get(result, "id"), arg)

\* The season and the group code of a standings request: the season and level
\* parameters in hockey, the segments of the URL path in basketball.
StandingsYear(req) ==
    IF sport = "nhl" THEN ToString(req.params["season"]) ELSE Before(req.url, "/group/")

StandingsGroup(req) ==
    IF sport = "nhl" THEN req.params["level"] ELSE Str(After(req.url, "/group/"))

\* C2: getStandings called with no argument issues its request, with the
\* year read off the clock and the group "league", and does not fail before.
C2_StandingsWithoutArguments ==
    (op = "getStandings" /\ arg.t = "undefined")
        => /\ Issued
           /\ error # "TypeError" \/ projected
           /\ clock.t = "number"
           /\ StandingsYear(requests[1]) = NatToString(clock.n)
           /\ StandingsGroup(requests[1]) = (IF sport = "nhl" THEN Num(1) ELSE Word("league"))

\* The call passes an object without year, month and day.
NoDateGiven ==
    /\ IsObject(arg)
    /\ \A k \in {"year", "month", "day"} : Get(arg, k).t = "undefined"

\* C3: a scoreboard call without year, month and day issues a request with no
\* dates parameter at all; limit is the only parameter.
C3_ScoreboardWithoutDate ==
    (op = "getScoreboard" /\ Issued /\ NoDateGiven)
        => /\ ~HasDates(requests[1])
           /\ DOMAIN requests[1].params = {"limit"}

\* C4: a game-id operation that has received a response never throws,
\* whichever paths the response lacks: it returns an object, and leaders is
\* undefined in it when the response has no leaders.
C4_MissingPathsNeverThrow ==
    (op \in GameOps /\ projected)
        => /\ pc = "fulfilled"
           /\ error = "none"
           /\ IsObject(result)
           /\ (op \in {"getSummary", "getPicks"} /\ ~Present(Walk(res, <<"data", "leaders">>)))
                => Get(result, "leaders") = Undefined

\* C5: when the GET fails, the code after the await never runs: the call is
\* rejected with the transport's error and no result exists.
C5_FailedGetIsNeverProjected ==
    error = "TransportError"
        => /\ ~projected
           /\ pc = "rejected"
           /\ result = None
           /\ res = None

C5_Witness ==
    /\ op = "getPicks"
    /\ error = "TransportError"
    /\ pc = "rejected"
    /\ Issued

\* The output fields the interface documents, per operation.
DocumentedFields(o) ==
    CASE o = "getPlayByPlay" ->
            {"teams", "id", "plays", "competitions", "season", "boxScore",
             "seasonSeries", "standings"}
                \cup (IF sport = "nhl" THEN {"onIce"} ELSE {})
      [] o = "getSummary" ->
            {"boxScore", "gameInfo", "header", "teams", "id", "plays",
             "winProbability", "leaders", "competitions", "season",
             "seasonSeries", "standings"}
      [] o = "getPicks" ->
            {"id", "gameInfo", "leaders", "header", "teams", "competitions",
             "winProbability", "pickcenter", "againstTheSpread", "odds",
             "seasonSeries", "season", "standings"}

ProjectedOps == {"getPlayByPlay", "getSummary", "getPicks"}

\* C6 as stated: the keys of a play-by-play, summary or picks result are
\* among the documented fields of the operation.
C6_KeysAreDocumented ==
    (op \in ProjectedOps /\ pc = "fulfilled")
        => DOMAIN result.o \subseteq DocumentedFields(op)

\* C6, amended: the keys of a play-by-play, summary or picks result are among
\* the documented fields of the operation, to which the hockey summary adds
\* onIce.
C6_KeysAreDocumentedOrOnIce ==
    (op \in ProjectedOps /\ pc = "fulfilled")
        => DOMAIN result.o \subseteq
              (DocumentedFields(op)
                 \cup (IF sport = "nhl" /\ op = "getSummary" THEN {"onIce"} ELSE {}))

C6_Witness ==
    /\ sport = "nhl"
    /\ op = "getSummary"
    /\ pc = "fulfilled"
    /\ Get(result, "onIce") = Word("onIce")
    /\ Get(result, "leaders") = Word("leaders")

\* Exactly two digits for a value of 1..99.
TwoDigits(n) == <<Digits[(n \div 10) + 1], Digits[(n % 10) + 1]>>

\* C7: for a year, a month of 1..12 and a day of 1..31, given as numbers or
\* numeric strings, the date string of getSchedule and getScoreboard is the
\* year followed by two digits for the month and two digits for the day.
C7_DateIsYearAndTwoDigitParts ==
    (op \in {"getSchedule", "getScoreboard"} /\ Issued /\ IsObject(arg))
        => \A y \in Years : Get(arg, "year") \in YearForms(y) =>
             \A m \in Months : Get(arg, "month") \in NumForms(m) =>
               \A d \in Days : Get(arg, "day") \in NumForms(d) =>
                 /\ HasDates(requests[1])
                 /\ DatesOf(requests[1]) = NatToString(y) \o TwoDigits(m) \o TwoDigits(d)
                 /\ Len(DatesOf(requests[1])) = Len(NatToString(y)) + 4

C7_Witness ==
    /\ op = "getSchedule"
    /\ Issued
    /\ IsObject(arg)
    /\ Get(arg, "month") = Num(4)
    /\ Get(arg, "day") = Str(<<"1", "5">>)
    /\ DatesOf(requests[1]) = <<"2", "0", "1", "6", "0", "4", "1", "5">>

\* The group a standings call asks for, after the default.
GroupAsked == Default(arg, "group", Word("league"))

KnownGroups == {Word("league"), Word("conference"), Word("division")}

StandingsIssued == op = "getStandings" /\ Issued

\* The code the claim expects for a group: one per known group, pairwise
\* distinct, and the code of division for every other value.
C8_ClaimedCode(g) ==
    IF sport = "nhl"
    THEN (IF g = Word("league") THEN Num(1)
          ELSE IF g = Word("conference") THEN Num(2) ELSE Num(3))
    ELSE (IF g \in KnownGroups THEN g ELSE Word("division"))

\* C8 as stated: league, conference and division map to three distinct group
\* codes and every other group value to the code of division.
C8_UnknownGroupIsDivision ==
    StandingsIssued => StandingsGroup(requests[1]) = C8_ClaimedCode(GroupAsked)

\* The code per sport: the levels 1, 2, 3 (3 for every other value) in
\* hockey, the group value written out in basketball.
C8_AmendedCode(g) ==
    IF sport = "nhl"
    THEN (IF g = Word("league") THEN Num(1)
          ELSE IF g = Word("conference") THEN Num(2) ELSE Num(3))
    ELSE (IF g.t = "string" THEN g ELSE Str(NatToString(g.n)))

\* C8, amended: in hockey league, conference and division map to the levels
\* 1, 2 and 3 and every other value to 3; in basketball the group value goes
\* into the URL as it is, so the three known groups are distinct and an
\* unknown value is passed through.
C8_GroupCodePerSport ==
    StandingsIssued => StandingsGroup(requests[1]) = C8_AmendedCode(GroupAsked)

C8_Witness ==
    /\ StandingsIssued
    /\ sport = "nhl"
    /\ GroupAsked = Word("wildcard")
    /\ requests[1].params["level"] = Num(3)

\* The standings data of a response body: the document itself in hockey, the
\* groups of its content in basketball.
StandingsData ==
    IF sport = "nhl" THEN Walk(res, <<"data">>)
    ELSE Walk(res, <<"data", "content", "standings", "groups">>)

\* C9: when the standings GET succeeds with a body that holds standings data,
\* getStandings returns that data and does not fail.
C9_StandingsAreReturned ==
    (op = "getStandings" /\ projected /\ Present(StandingsData))
        => /\ pc = "fulfilled"
           /\ result = StandingsData

\* C10: a call that has completed, with a result or with an error, has issued
\* exactly one GET.
C10_ExactlyOneGetPerCall ==
    Settled => Len(requests) = 1

====
